---- MODULE Spec2Model ----
(***************************************************************************)
(* Model of src/scrape_x_latest.py: monitor_many (the poll scheduler),     *)
(* scrape_profile_df (the profile fetcher), the reference-id store ref_ids *)
(* and send_message (the dispatcher).                                      *)
(*                                                                         *)
(* Strings that the code takes apart (profile references) are sequences of *)
(* one-character strings.  Tweet ids are the numeric strings "1", "2", ... *)
(* written as the naturals 1, 2, ...  A parsed created_at is a natural,    *)
(* NaT is 0.                                                               *)
(***************************************************************************)
EXTENDS Naturals, Integers, Sequences, FiniteSets

\* ------------------------------------------------------------ bounds ----
MaxId     == 3      \* tweet ids that the rendered pages can show: 1..MaxId
MaxRaw    == 3      \* articles met by one fetch, over all its scroll rounds
max_tweets == 2     \* monitor_many's max_tweets argument

\* ------------------------------------------------- string helpers -------
DropFirst(s, n) == IF n >= Len(s) THEN << >> ELSE SubSeq(s, n + 1, Len(s))

StartsWith(s, p) == Len(s) >= Len(p) /\ SubSeq(s, 1, Len(p)) = p

RECURSIVE LStrip(_, _)
LStrip(s, c) == IF s # << >> /\ Head(s) = c THEN LStrip(Tail(s), c) ELSE s

RECURSIVE RStrip(_, _)
RStrip(s, c) ==
    IF s # << >> /\ s[Len(s)] = c THEN RStrip(SubSeq(s, 1, Len(s) - 1), c) ELSE s

\* str.strip() / str.strip("/")
Strip(s, c) == RStrip(LStrip(s, c), c)

\* index of the first occurrence of c in s, 0 when there is none
RECURSIVE FindFrom(_, _, _)
FindFrom(s, c, k) ==
    IF k > Len(s) THEN 0 ELSE IF s[k] = c THEN k ELSE FindFrom(s, c, k + 1)

Find(s, c) == FindFrom(s, c, 1)

\* characters urllib accepts in a scheme, among the characters used here
SchemeChars == {"h", "t", "p", "s", "x", "c", "o", "m", "A", "l", "b", "."}

Letters == SchemeChars \ {"."}

\* urlparse(s).path for references without '?', '#' and ';'
UrlPath(s) ==
    LET colon == Find(s, ":")
        hasScheme == /\ colon > 1
                     /\ s[1] \in Letters
                     /\ \A k \in 1..(colon - 1) : s[k] \in SchemeChars
        rest == IF hasScheme THEN DropFirst(s, colon) ELSE s
    IN  IF StartsWith(rest, <<"/", "/">>)
        THEN LET afterSlashes == DropFirst(rest, 2)
                 slash == Find(afterSlashes, "/")
             IN  IF slash = 0 THEN << >> ELSE DropFirst(afterSlashes, slash - 1)
        ELSE rest

\* path.split("/")[0]
FirstSegment(path) ==
    LET slash == Find(path, "/")
    IN  IF slash = 0 THEN path ELSE SubSeq(path, 1, slash - 1)

\* the whole path taken for a URL instead of its first segment
parse_username_WholePath(profile) ==
    LET s == Strip(profile, " ")
    IN  IF StartsWith(s, <<"@">>) THEN DropFirst(s, 1)
        ELSE IF StartsWith(s, <<"h", "t", "t", "p">>)
             THEN Strip(UrlPath(s), "/")
             ELSE s

parse_username(profile) ==
    LET s == Strip(profile, " ")
    IN  IF StartsWith(s, <<"@">>) THEN DropFirst(s, 1)
        ELSE IF StartsWith(s, <<"h", "t", "t", "p">>)
             THEN LET path == Strip(UrlPath(s), "/")
                  IN  IF path # << >> THEN FirstSegment(path) ELSE << >>
             ELSE s

\* [x for x in seq if keep(x)] with x mapped through parse_username
RECURSIVE ValidUsernames(_)
ValidUsernames(ps) ==
    IF ps = << >> THEN << >>
    ELSE IF parse_username(Head(ps)) # << >>
         THEN <<parse_username(Head(ps))>> \o ValidUsernames(Tail(ps))
         ELSE ValidUsernames(Tail(ps))

\* ------------------------------------------------- configuration --------
Ref_UrlAl == <<"h","t","t","p","s",":","/","/","x",".","c","o","m","/","A","l">>
Ref_AtBo  == <<"@","b","o">>
Ref_Blank == <<" ">>
Ref_AtAt  == <<"@","@">>

\* values of USERS the model is run with
ProfileLists ==
    { <<Ref_AtBo, Ref_Blank, Ref_UrlAl>>,
      <<Ref_AtAt>>,
      <<Ref_Blank>> }

Tokens   == {"", "token"}
Channels == {"", "channel"}

\* ------------------------------------------------- page content ---------
NaT == 0

\* the datetime attribute the page shows for tweet k
RawTsOf(k) ==
    IF k % 4 = 1 THEN "2025-09-19T18:40:44.000Z"
    ELSE IF k % 4 = 2 THEN ""
    ELSE IF k % 4 = 3 THEN "2025-09-20T07:00:00.000Z"
    ELSE "yesterday"

\* the decimal digits of the natural n, as a string
RECURSIVE IdStr(_)
IdStr(n) ==
    LET digit == <<"0", "1", "2", "3", "4", "5", "6", "7", "8", "9">>[(n % 10) + 1]
    IN  IF n < 10 THEN <<digit>> ELSE Append(IdStr(n \div 10), digit)

XCom == <<"h","t","t","p","s",":","/","/","x",".","c","o","m","/">>

StatusSegment == <<"/","s","t","a","t","u","s","/">>

\* the href of the status link the page shows for tweet k: a path for the
\* odd ids, a full URL for the even ones
HrefOf(k) ==
    IF k % 2 = 1
    THEN <<"/", "A", "l">> \o StatusSegment \o IdStr(k)
    ELSE XCom \o <<"A", "l">> \o StatusSegment \o IdStr(k)

\* one dict of collect_tweets_from_page per tweet the page can show
PageItems ==
    { [id |-> k, url |-> HrefOf(k), created_at |-> RawTsOf(k)] : k \in 1..MaxId }

\* ------------------------------------------------- extraction -----------
Digits == {"0", "1", "2", "3", "4", "5", "6", "7", "8", "9"}

\* the longest run of digits of s that starts at position k
RECURSIVE DigitRun(_, _)
DigitRun(s, k) ==
    IF k <= Len(s) /\ s[k] \in Digits THEN <<s[k]>> \o DigitRun(s, k + 1) ELSE << >>

\* re.search(r"/status/(\d+)", urlparse(url).path): group 1 of the first
\* match, the empty string standing for None
extract_status_id(url) ==
    LET path == UrlPath(url)
        starts == { q \in 1..Len(path) :
                      /\ q + 8 <= Len(path)
                      /\ SubSeq(path, q, q + 7) = StatusSegment
                      /\ path[q + 8] \in Digits }
    IN  IF starts = {} THEN << >>
        ELSE DigitRun(path, (CHOOSE q \in starts : \A r \in starts : q <= r) + 8)

\* the natural a string of digits writes, 0 for the empty string
RECURSIVE StrToNat(_)
StrToNat(digits) ==
    IF digits = << >> THEN 0
    ELSE LET last == digits[Len(digits)]
             value == CHOOSE d \in 0..9 : IdStr(d) = <<last>>
         IN  10 * StrToNat(SubSeq(digits, 1, Len(digits) - 1)) + value

\* the dicts collect_tweets_from_page appends for the articles on the page
RECURSIVE collect_tweets_from_page(_)
collect_tweets_from_page(articles) ==
    IF articles = << >> THEN << >>
    ELSE LET a == Head(articles)
             rest == collect_tweets_from_page(Tail(articles))
         IN  IF ~a.linked THEN rest
             ELSE IF extract_status_id(a.href) = << >> THEN rest
             ELSE << [id |-> StrToNat(extract_status_id(a.href)),
                      url |-> a.href,
                      created_at |-> a.datetime] >> \o rest

RECURSIVE SeqsUpTo(_, _)
SeqsUpTo(S, n) ==
    IF n = 0 THEN { << >> }
    ELSE LET shorter == SeqsUpTo(S, n - 1)
         IN  shorter \cup { Append(q, x) : q \in { r \in shorter : Len(r) = n - 1 }, x \in S }

\* what the articles met during one fetch yield, in the order met
RawPages == SeqsUpTo(PageItems, MaxRaw)

\* HTTP status of the channel endpoint; 0 stands for requests.post raising
Responses == {0, 200, 201, 204, 404, 500}

\* ------------------------------------------------- scrape_profile_df ----
IdsOf(df) == { df[k].id : k \in 1..Len(df) }

\* add_batch: append the dicts whose id was not seen yet
RECURSIVE add_batch(_, _)
add_batch(items, batch) ==
    IF batch = << >> THEN items
    ELSE IF Head(batch).id \in IdsOf(items)
         THEN add_batch(items, Tail(batch))
         ELSE add_batch(Append(items, Head(batch)), Tail(batch))

\* items[:max_tweets]
Truncate(items, n) == IF Len(items) <= n THEN items ELSE SubSeq(items, 1, n)

\* pd.to_datetime(..., errors="coerce")
to_datetime(raw) ==
    IF raw = "2025-09-19T18:40:44.000Z" THEN 1
    ELSE IF raw = "2025-09-20T07:00:00.000Z" THEN 2
    ELSE NaT

\* df.insert(1, "username", username) and the created_at conversion
Rows(items, username) ==
    [ k \in 1..Len(items) |->
        [id |-> items[k].id, username |-> username,
         created_at |-> to_datetime(items[k].created_at),
         url |-> items[k].url] ]

\* df.drop_duplicates(subset=["id"]): the first row of each id is kept
RECURSIVE drop_duplicates(_, _)
drop_duplicates(kept, df) ==
    IF df = << >> THEN kept
    ELSE IF Head(df).id \in IdsOf(kept)
         THEN drop_duplicates(kept, Tail(df))
         ELSE drop_duplicates(Append(kept, Head(df)), Tail(df))

\* row a has to come before row b: descending created_at, NaT last
ComesBefore(a, b) ==
    /\ a.created_at # NaT
    /\ b.created_at = NaT \/ a.created_at > b.created_at

IsSortedDesc(df) ==
    \A k \in 1..Len(df) : \A m \in 1..Len(df) : k < m => ~ComesBefore(df[m], df[k])

RowOrders(df) ==
    LET n == Len(df)
        bij == { f \in [1..n -> 1..n] : \A k \in 1..n : \A m \in 1..n : k # m => f[k] # f[m] }
    IN  { [k \in 1..n |-> df[f[k]]] : f \in bij }

\* sort_values with ascending=True (NaT stays last)
sort_values_Asc(df) ==
    { q \in RowOrders(df) :
        \A k \in 1..Len(q) : \A m \in 1..Len(q) :
            k < m => ~( /\ q[m].created_at # NaT
                        /\ q[k].created_at = NaT \/ q[m].created_at < q[k].created_at ) }

\* df.sort_values("created_at", ascending=False): the orders the sort may
\* return (rows of equal created_at are in no guaranteed order)
sort_values(df) == { q \in RowOrders(df) : IsSortedDesc(q) }

\* lines 155-177: what the collection loop leaves in items[:max_tweets],
\* over everything the articles met during it can yield
CollectedItems ==
    { Truncate(add_batch(<< >>, raw), max_tweets) : raw \in RawPages }

\* lines 177-184: the frames scrape_profile_df can return for items
ScrapeResults(items, username) ==
    IF items = << >> THEN { << >> }
    ELSE sort_values(drop_duplicates(<< >>, Rows(items, username)))

\* ------------------------------------------------- message helpers ------
\* the scraped href sent as it is
build_tweet_url_Scraped(username, tweet_id, scraped_url) == scraped_url

build_tweet_url(username, tweet_id, scraped_url) ==
    IF scraped_url # << >> /\ StartsWith(scraped_url, <<"h", "t", "t", "p">>)
    THEN scraped_url
    ELSE XCom \o username \o StatusSegment \o IdStr(tweet_id)

\* ------------------------------------------------- send_message ---------
\* send_message without its try/except: a transport error leaves the function
send_message_NoCatch(token, channel_id, resp) ==
    IF token = "" \/ channel_id = "" THEN "skipped"
    ELSE IF resp = 0 THEN "raised"
    ELSE IF resp \in {200, 201} THEN "success"
    ELSE "failed"

\* the outcome of one call; "raised" would be an exception leaving the call,
\* which the except clause of line 52 rules out
send_message(token, channel_id, resp) ==
    IF token = "" \/ channel_id = "" THEN "skipped"
    ELSE IF resp = 0 THEN "error"
    ELSE IF resp \in {200, 201} THEN "success"
    ELSE "failed"

\* ------------------------------------------------- monitor_many ---------
VARIABLES
    profiles,       \* USERS, the profile references given to monitor_many
    BOT_TOKEN,      \* module constant BOT_TOKEN
    CHANNEL_ID,     \* module constant CHANNEL_ID
    pc,             \* where monitor_many stands
    usernames,      \* the list built at line 217
    i,              \* position in usernames of the iteration under way
    u,              \* the loop variable u
    ref_ids,        \* the dict ref_ids: username -> set of ids
    df0,            \* the frame of the latest seeding fetch
    cur_df,         \* the frame of the latest polling fetch
    how,            \* the return path the latest scrape_profile_df took
    queue,          \* rows of the sorted new_df still to be iterated
    sent,           \* send_message calls made for u in the cycle under way
    pages,          \* pages of ctx that are open
    ctx_open,       \* ctx exists and ctx.close() was not called
    browser_open,   \* browser exists and browser.close() was not called
    pw_running,     \* inside the "with sync_playwright()" block
    raised,         \* the exception that left the loops, "none" if none
    exit_code,      \* exit status of the process, -1 while it runs
    fetch_pc,       \* where a scrape_profile_df call followed step by step
                    \* stands, "none" when no call is followed
    fetch_profile,  \* its argument profile
    username,       \* its variable username
    items,          \* its list items (seen is the set of the ids in items)
    batch,          \* what its latest collect_tweets_from_page call returned
    before,         \* its variable before
    idle_rounds,    \* its variable idle_rounds
    fetch_df        \* the frame it returned

vars == <<profiles, BOT_TOKEN, CHANNEL_ID, pc, usernames, i, u, ref_ids, df0,
          cur_df, how, queue, sent, pages, ctx_open, browser_open, pw_running,
          raised, exit_code, fetch_pc, fetch_profile, username, items, batch,
          before, idle_rounds, fetch_df>>

fetchVars == <<fetch_pc, fetch_profile, username, items, batch, before,
               idle_rounds, fetch_df>>

config == <<profiles, BOT_TOKEN, CHANNEL_ID>>

EmptyDict == [k \in {} |-> {}]

\* d[k] = v
DictSet(d, k, v) == [x \in (DOMAIN d) \cup {k} |-> IF x = k THEN v ELSE d[x]]

InitPcs == {"init", "init_fetch"}
PollPcs == {"sleep", "poll", "poll_fetch", "diff", "dispatch"}

\* the scheduler state of the specification the position pc belongs to
SchedulerState ==
    IF pc \in InitPcs THEN "INITIALIZING"
    ELSE IF pc \in PollPcs THEN "POLLING"
    ELSE IF pc = "exit" THEN "STOPPED"
    ELSE "CONFIGURING"

InitRest ==
    /\ BOT_TOKEN \in Tokens
    /\ CHANNEL_ID \in Channels
    /\ pc = "start"
    /\ usernames = << >>
    /\ i = 0
    /\ u = << >>
    /\ ref_ids = EmptyDict
    /\ df0 = << >>
    /\ cur_df = << >>
    /\ how = "none"
    /\ queue = << >>
    /\ sent = << >>
    /\ pages = 0
    /\ ctx_open = FALSE
    /\ browser_open = FALSE
    /\ pw_running = FALSE
    /\ raised = "none"
    /\ exit_code = -1
    /\ fetch_pc = "none"
    /\ fetch_profile = << >>
    /\ username = << >>
    /\ items = << >>
    /\ batch = << >>
    /\ before = 0
    /\ idle_rounds = 0
    /\ fetch_df = << >>

Init ==
    /\ profiles \in ProfileLists
    /\ InitRest

\* lines 213-215: sys.exit(1) when a credential is missing
ExitNoCredentials ==
    /\ pc = "start"
    /\ BOT_TOKEN = "" \/ CHANNEL_ID = ""
    /\ pc' = "exit"
    /\ raised' = "SystemExit"
    /\ exit_code' = 1
    /\ UNCHANGED <<fetchVars, config, usernames, i, u, ref_ids, df0, cur_df, how, queue,
                   sent, pages, ctx_open, browser_open, pw_running>>

\* lines 217-220: sys.exit(1) when no reference yields a username
ExitNoProfiles ==
    /\ pc = "start"
    /\ BOT_TOKEN # "" /\ CHANNEL_ID # ""
    /\ ValidUsernames(profiles) = << >>
    /\ usernames' = << >>
    /\ pc' = "exit"
    /\ raised' = "SystemExit"
    /\ exit_code' = 1
    /\ UNCHANGED <<fetchVars, config, i, u, ref_ids, df0, cur_df, how, queue,
                   sent, pages, ctx_open, browser_open, pw_running>>

\* the launch without the test of line 213
Launch_NoCredentialCheck ==
    /\ pc = "start"
    /\ ValidUsernames(profiles) # << >>
    /\ usernames' = ValidUsernames(profiles)
    /\ pw_running' = TRUE
    /\ browser_open' = TRUE
    /\ ctx_open' = TRUE
    /\ ref_ids' = EmptyDict
    /\ i' = 1
    /\ pc' = "init"
    /\ UNCHANGED <<fetchVars, config, u, df0, cur_df, how, queue, sent, pages, raised,
                   exit_code>>

\* lines 217-229: the usernames, the browser, the context, the empty dict
Launch ==
    /\ pc = "start"
    /\ BOT_TOKEN # "" /\ CHANNEL_ID # ""
    /\ ValidUsernames(profiles) # << >>
    /\ usernames' = ValidUsernames(profiles)
    /\ pw_running' = TRUE
    /\ browser_open' = TRUE
    /\ ctx_open' = TRUE
    /\ ref_ids' = EmptyDict
    /\ i' = 1
    /\ pc' = "init"
    /\ UNCHANGED <<fetchVars, config, u, df0, cur_df, how, queue, sent, pages, raised,
                   exit_code>>

\* an exception leaves monitor_many during the seeding loop, which no try
\* statement encloses: only the with block of line 224 is left
LeaveInit(exception) ==
    /\ raised' = exception
    /\ pw_running' = FALSE
    /\ exit_code' = 1
    /\ pc' = "exit"
    /\ UNCHANGED <<fetchVars, config, usernames, i, u, ref_ids, df0, cur_df, how, queue,
                   sent, pages, ctx_open, browser_open>>

\* lines 265-267: the finally clause closes the context and the browser
LeavePoll(exception, status) ==
    /\ raised' = exception
    /\ ctx_open' = FALSE
    /\ pages' = 0
    /\ browser_open' = FALSE
    /\ pw_running' = FALSE
    /\ exit_code' = status
    /\ pc' = "exit"
    /\ UNCHANGED <<fetchVars, config, usernames, i, u, ref_ids, df0, cur_df, how, queue,
                   sent>>

\* position after the iteration for usernames[i] of either for loop
AfterProfile(loopPc) == IF i = Len(usernames) THEN "sleep" ELSE loopPc

\* a seeding that records no id
SeedRef_Empty(df) == {}

\* line 232: the reference recorded for a seeding frame
SeedRef(df) == IF df # << >> THEN IdsOf(df) ELSE {}

\* lines 230-231, 130-136: the seeding iteration starts and scrape_profile_df
\* opens the page; with an empty username it returns at line 132 and lines
\* 232-233 follow at once
SeedOpen ==
    /\ pc = "init"
    /\ u' = usernames[i]
    /\ IF parse_username(usernames[i]) = << >>
       THEN /\ how' = "nouser"
            /\ df0' = << >>
            /\ ref_ids' = DictSet(ref_ids, usernames[i], SeedRef(<< >>))
            /\ i' = i + 1
            /\ pc' = AfterProfile("init")
            /\ UNCHANGED pages
       ELSE /\ pages' = pages + 1
            /\ pc' = "init_fetch"
            /\ UNCHANGED <<how, df0, ref_ids, i>>
    /\ UNCHANGED <<fetchVars, config, usernames, cur_df, queue, sent, ctx_open,
                   browser_open, pw_running, raised, exit_code>>

\* the frames scrape_profile_df can return on path kind: an empty frame at
\* lines 143 and 152, what the collected articles give at lines 177-184
Returned(kind, profile) ==
    IF kind = "collected"
    THEN UNION { ScrapeResults(collected, parse_username(profile)) :
                    collected \in CollectedItems }
    ELSE { << >> }

ReturnPaths == {"protected", "timeout", "collected"}

\* lines 139-184 and 232-233: the seeding fetch returns (lines 142-143 when
\* protected, 151-152 on the wait timeout, 175-184 after collecting) and its
\* ids become the reference of u
SeedReturn ==
    /\ pc = "init_fetch"
    /\ \E kind \in ReturnPaths : \E df \in Returned(kind, u) :
            /\ how' = kind
            /\ df0' = df
            /\ ref_ids' = DictSet(ref_ids, u, SeedRef(df))
    /\ pages' = pages - 1
    /\ i' = i + 1
    /\ pc' = AfterProfile("init")
    /\ UNCHANGED <<fetchVars, config, usernames, u, cur_df, queue, sent, ctx_open,
                   browser_open, pw_running, raised, exit_code>>

\* line 237: time.sleep returns and the for loop of the cycle starts; df0
\* and the finished cycle's frame are dead from here on
Sleep ==
    /\ pc = "sleep"
    /\ pc' = "poll"
    /\ i' = 1
    /\ df0' = << >>
    /\ UNCHANGED <<fetchVars, config, usernames, u, ref_ids, cur_df, how, queue, sent,
                   pages, ctx_open, browser_open, pw_running, raised, exit_code>>

\* lines 239-240, 130-136: the polling iteration starts and the page opens;
\* with an empty username scrape_profile_df returns at line 132
PollOpen ==
    /\ pc = "poll"
    /\ u' = usernames[i]
    /\ sent' = << >>
    /\ queue' = << >>
    /\ IF parse_username(usernames[i]) = << >>
       THEN /\ how' = "nouser"
            /\ cur_df' = << >>
            /\ pc' = "diff"
            /\ UNCHANGED pages
       ELSE /\ pages' = pages + 1
            /\ pc' = "poll_fetch"
            /\ UNCHANGED <<how, cur_df>>
    /\ UNCHANGED <<fetchVars, config, usernames, i, ref_ids, df0, ctx_open, browser_open,
                   pw_running, raised, exit_code>>

\* a fetch that does not close its page on the wait timeout
PollReturn_KeepsPage ==
    /\ pc = "poll_fetch"
    /\ \E kind \in ReturnPaths : \E df \in Returned(kind, u) :
            /\ how' = kind
            /\ cur_df' = df
            /\ pages' = IF kind = "timeout" THEN pages ELSE pages - 1
    /\ pc' = "diff"
    /\ UNCHANGED <<fetchVars, config, usernames, i, u, ref_ids, df0, queue, sent,
                   ctx_open, browser_open, pw_running, raised, exit_code>>

\* lines 139-184, 240: the polling fetch returns
PollReturn ==
    /\ pc = "poll_fetch"
    /\ \E kind \in ReturnPaths : \E df \in Returned(kind, u) :
            /\ how' = kind
            /\ cur_df' = df
    /\ pages' = pages - 1
    /\ pc' = "diff"
    /\ UNCHANGED <<fetchVars, config, usernames, i, u, ref_ids, df0, queue, sent,
                   ctx_open, browser_open, pw_running, raised, exit_code>>

\* line 241
CurIds(df) == IF df # << >> THEN IdsOf(df) ELSE {}

\* every fetched id taken as new
NewIds_All(cur_ids, ref) == cur_ids

\* the difference taken the wrong way round
NewIds_Reversed(cur_ids, ref) == ref \ cur_ids

\* line 242
NewIds(cur_ids, ref) == cur_ids \ ref

\* line 245: cur_df[cur_df["id"].isin(new_ids)]
RECURSIVE SelectIds(_, _)
SelectIds(df, ids) ==
    IF df = << >> THEN << >>
    ELSE IF Head(df).id \in ids
         THEN <<Head(df)>> \o SelectIds(Tail(df), ids)
         ELSE SelectIds(Tail(df), ids)

\* lines 241-246 and 259-261: the ids are compared with the reference; with
\* new ids the sorted new_df is set up for the loop, without any the
\* iteration ends (the reference is not assigned)
Diff ==
    /\ pc = "diff"
    /\ LET new_ids == NewIds(CurIds(cur_df), ref_ids[u])
       IN  IF new_ids # {}
           THEN /\ queue' \in sort_values(SelectIds(cur_df, new_ids))
                /\ pc' = "dispatch"
                /\ UNCHANGED i
           ELSE /\ queue' = << >>
                /\ i' = i + 1
                /\ pc' = AfterProfile("poll")
    /\ UNCHANGED <<fetchVars, config, usernames, u, ref_ids, df0, cur_df, how, sent,
                   pages, ctx_open, browser_open, pw_running, raised, exit_code>>

\* lines 246-255: one row of new_df is formatted and sent; send_message
\* returns whatever the endpoint answers (status is the answer, 0 for none)
Dispatch ==
    /\ pc = "dispatch"
    /\ queue # << >>
    /\ \E resp \in Responses :
         LET outcome == send_message(BOT_TOKEN, CHANNEL_ID, resp)
         IN  IF outcome = "raised"
             THEN LeavePoll("Error", 1)
             ELSE /\ sent' = Append(sent,
                              [id |-> Head(queue).id,
                               created_at |-> Head(queue).created_at,
                               url |-> build_tweet_url(Head(queue).username,
                                                       Head(queue).id,
                                                       Head(queue).url),
                               status |-> resp,
                               outcome |-> outcome])
                  /\ queue' = Tail(queue)
                  /\ UNCHANGED <<fetchVars, config, pc, usernames, i, u, ref_ids, df0,
                                 cur_df, how, pages, ctx_open, browser_open,
                                 pw_running, raised, exit_code>>

\* the reference merged with the fetched ids instead of replaced by them
Update_Union ==
    /\ pc = "dispatch"
    /\ queue = << >>
    /\ ref_ids' = DictSet(ref_ids, u, ref_ids[u] \cup CurIds(cur_df))
    /\ i' = i + 1
    /\ pc' = AfterProfile("poll")
    /\ UNCHANGED <<fetchVars, config, usernames, u, df0, cur_df, how, queue, sent, pages,
                   ctx_open, browser_open, pw_running, raised, exit_code>>

\* the fetched ids assigned to the first profile's reference
Update_FirstKey ==
    /\ pc = "dispatch"
    /\ queue = << >>
    /\ ref_ids' = DictSet(ref_ids, usernames[1], CurIds(cur_df))
    /\ i' = i + 1
    /\ pc' = AfterProfile("poll")
    /\ UNCHANGED <<fetchVars, config, usernames, u, df0, cur_df, how, queue, sent, pages,
                   ctx_open, browser_open, pw_running, raised, exit_code>>

\* line 258: the loop over new_df is over and the reference is replaced
Update ==
    /\ pc = "dispatch"
    /\ queue = << >>
    /\ ref_ids' = DictSet(ref_ids, u, CurIds(cur_df))
    /\ i' = i + 1
    /\ pc' = AfterProfile("poll")
    /\ UNCHANGED <<fetchVars, config, usernames, u, df0, cur_df, how, queue, sent, pages,
                   ctx_open, browser_open, pw_running, raised, exit_code>>

\* page.goto, a locator or the mouse wheel raises inside the seeding fetch
SeedFault ==
    /\ pc = "init_fetch"
    /\ LeaveInit("Error")

\* the same inside a polling fetch: line 263 catches KeyboardInterrupt only
PollFault ==
    /\ pc = "poll_fetch"
    /\ LeavePoll("Error", 1)

\* the stop signal (KeyboardInterrupt) during the seeding loop
InterruptInit ==
    /\ pc \in InitPcs
    /\ LeaveInit("KeyboardInterrupt")

\* the stop signal inside the try statement: lines 263-267
InterruptPoll ==
    /\ pc \in PollPcs
    /\ LeavePoll("KeyboardInterrupt", 0)

Next ==
    \/ ExitNoCredentials
    \/ ExitNoProfiles
    \/ Launch
    \/ SeedOpen
    \/ SeedReturn
    \/ SeedFault
    \/ InterruptInit
    \/ Sleep
    \/ PollOpen
    \/ PollReturn
    \/ PollFault
    \/ Diff
    \/ Dispatch
    \/ Update
    \/ InterruptPoll

Spec == Init /\ [][Next]_vars

\* ------------------------------------------------- configurations ------
\* references of every accepted form, for the runs that look at the
\* configuration step and the seeding only
NRef_Handle    == <<"@","b","o">>
NRef_Url       == <<"h","t","t","p","s",":","/","/","x",".","c","o","m","/","A","l">>
NRef_Bare      == <<"b","o">>
NRef_UrlDeep   == <<"h","t","t","p","s",":","/","/","x",".","c","o","m","/","/","b","o","/","A","l">>
NRef_UrlSlash  == <<"h","t","t","p",":","/","/","x",".","c","o","m","/","A","l","/">>
NRef_Blank     == <<" ">>
NRef_UrlNoPath == <<"h","t","t","p","s",":","/","/","x",".","c","o","m","/">>
NRef_At        == <<"@">>

NormRefs ==
    { NRef_Handle, NRef_Url, NRef_Bare, NRef_UrlDeep, NRef_UrlSlash,
      NRef_Blank, NRef_UrlNoPath, NRef_At }

MaxProfiles == 2

ConfigLists == SeqsUpTo(NormRefs, MaxProfiles)

InitConfig ==
    /\ profiles \in ConfigLists
    /\ InitRest

\* monitor_many up to the end of the seeding loop (line 233)
NextConfig ==
    \/ ExitNoCredentials
    \/ ExitNoProfiles
    \/ Launch
    \/ SeedOpen
    \/ SeedReturn
    \/ SeedFault
    \/ InterruptInit

SpecConfig == InitConfig /\ [][NextConfig]_vars

\* ------------------------------------------------- one fetch, by steps ---
MaxBatch == 3       \* articles on the page at one collect_tweets_from_page call

IdleLimit == 8

\* the articles of the timeline
Article(k)     == [linked |-> TRUE, href |-> HrefOf(k), datetime |-> RawTsOf(k)]
Article_Again  == [linked |-> TRUE,
                   href |-> XCom \o <<"A", "l">> \o StatusSegment \o IdStr(1),
                   datetime |-> "2025-09-20T07:00:00.000Z"]
Article_NoLink == [linked |-> FALSE, href |-> << >>, datetime |-> ""]
Article_NoId   == [linked |-> TRUE,
                   href |-> <<"/", "A", "l">> \o StatusSegment,
                   datetime |-> "2025-09-19T18:40:44.000Z"]

\* tweets k..MaxId, each from tweet 3 on shown twice in a row
RECURSIVE TimelineFrom(_)
TimelineFrom(k) ==
    IF k > MaxId THEN << >>
    ELSE (IF k >= 3 THEN <<Article(k), Article(k)>> ELSE <<Article(k)>>)
         \o TimelineFrom(k + 1)

\* the timeline of the profile: tweet 1, tweet 1 once more under another
\* link and time, an article without a status link, an article whose status
\* link has no id, then the other tweets
Timeline ==
    <<Article(1), Article_Again, Article_NoLink, Article_NoId>> \o TimelineFrom(2)

\* the articles on the page at one call: a stretch of the timeline of at
\* most MaxBatch articles, none included
Windows ==
    { SubSeq(Timeline, w[1], w[2]) :
        w \in { v \in (1..Len(Timeline)) \X (0..Len(Timeline)) :
                   v[2] >= v[1] - 1 /\ v[2] - v[1] < MaxBatch } }

\* what collect_tweets_from_page can return at one call
Batches == { collect_tweets_from_page(arts) : arts \in Windows }

FetchProfiles == { NRef_Url, NRef_At }

monitorVars == <<config, pc, usernames, i, u, ref_ids, df0, cur_df, queue, sent,
                 ctx_open, browser_open, pw_running, raised, exit_code>>

\* a call scrape_profile_df(ctx, profile, max_tweets) on an open context
InitFetch ==
    /\ profiles = << >>
    /\ BOT_TOKEN = "token"
    /\ CHANNEL_ID = "channel"
    /\ pc = "none"
    /\ usernames = << >>
    /\ i = 0
    /\ u = << >>
    /\ ref_ids = EmptyDict
    /\ df0 = << >>
    /\ cur_df = << >>
    /\ how = "none"
    /\ queue = << >>
    /\ sent = << >>
    /\ pages = 0
    /\ ctx_open = TRUE
    /\ browser_open = TRUE
    /\ pw_running = TRUE
    /\ raised = "none"
    /\ exit_code = -1
    /\ fetch_pc = "call"
    /\ fetch_profile \in FetchProfiles
    /\ username = << >>
    /\ items = << >>
    /\ batch = << >>
    /\ before = 0
    /\ idle_rounds = 0
    /\ fetch_df = << >>

\* lines 130-136: the username; without one the empty frame is returned,
\* with one the page is opened and loaded
FetchCall ==
    /\ fetch_pc = "call"
    /\ username' = parse_username(fetch_profile)
    /\ IF username' = << >>
       THEN /\ how' = "nouser"
            /\ fetch_pc' = "returned"
            /\ UNCHANGED pages
       ELSE /\ pages' = pages + 1
            /\ fetch_pc' = "guard"
            /\ UNCHANGED how
    /\ UNCHANGED <<monitorVars, fetch_profile, items, batch, before,
                   idle_rounds, fetch_df>>

\* lines 139-143 and 148-152: the page is closed and the empty frame is
\* returned, for protected posts or when no article shows up in time
FetchGuardReturn ==
    /\ fetch_pc = "guard"
    /\ how' \in {"protected", "timeout"}
    /\ pages' = pages - 1
    /\ fetch_df' = << >>
    /\ fetch_pc' = "returned"
    /\ UNCHANGED <<monitorVars, username, fetch_profile, items, batch, before, idle_rounds>>

\* lines 155-164: an article showed up; seen, items and idle_rounds are set
FetchStartLoop ==
    /\ fetch_pc = "guard"
    /\ items' = << >>
    /\ idle_rounds' = 0
    /\ fetch_pc' = "loop"
    /\ UNCHANGED <<monitorVars, username, how, pages, fetch_profile, batch, before, fetch_df>>

\* line 165: the condition of the while loop
LoopCondition == Len(items) < max_tweets /\ idle_rounds < IdleLimit

\* lines 165-171: the condition holds, before is taken, the first add_batch
\* runs; the loop is left at once with max_tweets items, else the page is
\* scrolled
LoopFirstBatch ==
    /\ fetch_pc = "loop"
    /\ LoopCondition
    /\ before' = Len(items)
    /\ batch' \in Batches
    /\ items' = add_batch(items, batch')
    /\ fetch_pc' = IF Len(items') >= max_tweets THEN "close" ELSE "scrolled"
    /\ UNCHANGED <<monitorVars, username, how, pages, fetch_profile, idle_rounds, fetch_df>>

\* a counter that is never increased
IdleRounds_NeverCounts(idle, len_before, len_after) == 0

\* line 173
IdleRounds(idle, len_before, len_after) ==
    IF len_after = len_before THEN idle + 1 ELSE 0

\* a second add_batch that appends whatever the page shows
LoopSecondBatch_NoSeen ==
    /\ fetch_pc = "scrolled"
    /\ batch' \in Batches
    /\ items' = items \o batch'
    /\ idle_rounds' = IdleRounds(idle_rounds, before, Len(items'))
    /\ fetch_pc' = "loop"
    /\ UNCHANGED <<monitorVars, username, how, pages, fetch_profile, before, fetch_df>>

\* lines 172-173: the second add_batch and the idle_rounds update
LoopSecondBatch ==
    /\ fetch_pc = "scrolled"
    /\ batch' \in Batches
    /\ items' = add_batch(items, batch')
    /\ idle_rounds' = IdleRounds(idle_rounds, before, Len(items'))
    /\ fetch_pc' = "loop"
    /\ UNCHANGED <<monitorVars, username, how, pages, fetch_profile, before, fetch_df>>

\* line 165: the condition fails and the loop is left
LoopExit ==
    /\ fetch_pc = "loop"
    /\ ~LoopCondition
    /\ fetch_pc' = "close"
    /\ UNCHANGED <<monitorVars, username, how, pages, fetch_profile, items, batch, before,
                   idle_rounds, fetch_df>>

\* lines 175-184: the page is closed and the frame is built and returned
FetchFinish ==
    /\ fetch_pc = "close"
    /\ pages' = pages - 1
    /\ fetch_df' \in ScrapeResults(Truncate(items, max_tweets), username)
    /\ how' = "collected"
    /\ fetch_pc' = "returned"
    /\ UNCHANGED <<monitorVars, username, fetch_profile, items, batch, before, idle_rounds>>

\* page.goto, a locator or the mouse wheel raises: the call is left with
\* the page open
FetchRaise ==
    /\ fetch_pc \in {"guard", "loop", "scrolled"}
    /\ fetch_pc' = "raised"
    /\ UNCHANGED <<monitorVars, username, how, pages, fetch_profile, items, batch, before,
                   idle_rounds, fetch_df>>

NextFetch ==
    \/ FetchCall
    \/ FetchGuardReturn
    \/ FetchStartLoop
    \/ LoopFirstBatch
    \/ LoopSecondBatch
    \/ LoopExit
    \/ FetchFinish
    \/ FetchRaise

\* the statements of the call are executed one after the other: the call
\* does not stop while a step of it can be taken
SpecFetch == InitFetch /\ [][NextFetch]_vars /\ WF_vars(NextFetch)

TypeOK ==
    /\ pc \in {"start", "exit", "none"} \cup InitPcs \cup PollPcs
    /\ pages \in {0, 1}
    /\ exit_code \in {-1, 0, 1}
    /\ fetch_pc \in {"none", "call", "guard", "loop", "scrolled", "close",
                      "returned", "raised"}
    /\ idle_rounds \in 0..IdleLimit

\* ------------------------------------------------- properties -----------
SentIds == { sent[k].id : k \in 1..Len(sent) }

\* the step that ends the seeding iteration of u'
SeedDone == pc \in InitPcs /\ i' = i + 1

\* the step that ends the polling iteration of u
ProfileDone == pc \in {"diff", "dispatch"} /\ i' = i + 1

\* C1: the seeding fetch of a profile sends no notification, whatever it
\* returns, and leaves as the profile's reference exactly the ids of the
\* frame it returned.
C1_Seeding ==
    [][ /\ pc \in InitPcs => sent = << >> /\ sent' = << >>
        /\ SeedDone => /\ u' \in DOMAIN ref_ids'
                       /\ ref_ids'[u'] = { df0'[k].id : k \in 1..Len(df0') } ]_vars

\* a seeding fetch returned two tweets; they are the reference and nothing
\* was sent
C1_Witness ==
    /\ pc \in {"init", "sleep"}
    /\ Len(df0) = 2
    /\ u \in DOMAIN ref_ids
    /\ Cardinality(ref_ids[u]) = 2
    /\ sent = << >>

\* C2: while the rows of a polling fetch F are dispatched against the
\* reference B, the rows sent so far and the rows still to send are together
\* exactly the rows of F whose id is not in B, each once; nothing is sent
\* for a profile before its comparison, and every call carries one row of F.
C2_DeltaCorrectness ==
    /\ pc \in {"poll_fetch", "diff"} => sent = << >>
    /\ pc = "dispatch" =>
         LET B == ref_ids[u]
             F == { cur_df[k].id : k \in 1..Len(cur_df) }
             pending == { queue[k].id : k \in 1..Len(queue) }
         IN  /\ SentIds \cup pending = F \ B
             /\ Len(sent) + Len(queue) = Cardinality(F \ B)
             /\ \A k \in 1..Len(sent) : \E m \in 1..Len(cur_df) :
                    /\ cur_df[m].id = sent[k].id
                    /\ cur_df[m].created_at = sent[k].created_at

\* the loop over new_df is over: one known id was fetched again and not
\* sent, one new id was sent
C2_Witness ==
    /\ pc = "dispatch"
    /\ queue = << >>
    /\ Len(sent) = 1
    /\ Len(cur_df) = 2
    /\ \E k \in 1..2 : cur_df[k].id \in ref_ids[u]

C4_FaultIsolation ==
    [][ (pc = "poll_fetch" /\ raised' = "Error") =>
            /\ pc' \in PollPcs
            /\ ref_ids' = ref_ids ]_vars

\* C5: a polling fetch that ends in the wait timeout of line 149 returns an
\* empty frame; the iteration then sends nothing and leaves every reference
\* as it was before the cycle.
C5_TimeoutKeepsBaseline ==
    [][ (pc = "diff" /\ how = "timeout") =>
            /\ cur_df = << >>
            /\ sent = << >> /\ sent' = << >>
            /\ pc' # "dispatch"
            /\ ref_ids' = ref_ids ]_vars

\* a polling fetch timed out for a profile with a reference of two ids and
\* the iteration is over: the two ids are still the reference
C5_Witness ==
    /\ pc \in {"poll", "sleep"}
    /\ how = "timeout"
    /\ raised = "none"
    /\ cur_df = << >>
    /\ sent = << >>
    /\ u \in DOMAIN ref_ids
    /\ Cardinality(ref_ids[u]) = 2

\* C6: a seeding fetch that ends in the wait timeout does not leave the
\* profile recorded with the empty reference a profile without tweets gets.
C6_FailedSeedNotEmptyBaseline ==
    [][ (pc = "init_fetch" /\ how' = "timeout" /\ raised' = "none") =>
            ~(u \in DOMAIN ref_ids' /\ ref_ids'[u] = {}) ]_vars

\* C7: the notifications of one profile in one cycle are sent newest first,
\* those without a parsed created_at after all the others.
C7_NotificationOrder ==
    \A k \in 1..Len(sent) : \A m \in 1..Len(sent) :
        k < m => \/ sent[m].created_at = NaT
                 \/ /\ sent[k].created_at # NaT
                    /\ sent[k].created_at >= sent[m].created_at

\* two notifications went out, the first with the later of two timestamps
C7_Witness ==
    /\ Len(sent) = 2
    /\ sent[2].created_at # NaT
    /\ sent[1].created_at > sent[2].created_at

\* C8: whatever a delivery answers, the iteration goes on: the row is
\* consumed, the next row is dispatched, no reference changes during the
\* loop, and the step after the last row makes the fetch's id set the
\* reference and moves to the next profile or to the sleep.
C8_DeliveryFailureIsolation ==
    [][ (pc = "dispatch" /\ raised' # "KeyboardInterrupt") =>
            IF queue # << >>
            THEN /\ Len(sent') = Len(sent) + 1
                 /\ sent'[Len(sent')].id = Head(queue).id
                 /\ queue' = Tail(queue)
                 /\ pc' = "dispatch"
                 /\ ref_ids' = ref_ids
            ELSE /\ ref_ids'[u] = { cur_df[k].id : k \in 1..Len(cur_df) }
                 /\ pc' \in {"poll", "sleep"}
                 /\ raised' = "none" ]_vars

\* the first of two deliveries failed, the second was made all the same and
\* the iteration ended with the fetch's two ids as the reference
C8_Witness ==
    /\ pc \in {"poll", "sleep"}
    /\ Len(sent) = 2
    /\ sent[1].outcome \in {"failed", "error"}
    /\ ref_ids[u] = { sent[1].id, sent[2].id }
    /\ raised = "none"

\* C9: once the stop signal was raised the process has ended with status 0
\* and with the context and the browser closed.
C9_GracefulStop ==
    raised = "KeyboardInterrupt" =>
        /\ pc = "exit"
        /\ exit_code = 0
        /\ ~ctx_open
        /\ ~browser_open

\* C10: during polling the stop signal ends the scheduler only at the top
\* of a fetch or of the sleep, never inside a fetch, between the comparison
\* and the notifications, or between the notifications and the reference
\* update.
C10_StopOnlyAtBoundaries ==
    [][ (pc \in PollPcs /\ raised = "none" /\ raised' = "KeyboardInterrupt") =>
            pc \in {"sleep", "poll"} ]_vars

\* C11: with a missing token or channel id, or with no reference that
\* yields a non-empty username, the process leaves the configuration step
\* only by halting with an error: playwright is never started, no browser,
\* context or page is opened, no reference is recorded and nothing is sent.
C11_ConfigurationFault ==
    ( \/ BOT_TOKEN = ""
      \/ CHANNEL_ID = ""
      \/ \A k \in 1..Len(profiles) : parse_username(profiles[k]) = << >> )
    => /\ pc \in {"start", "exit"}
       /\ pc = "exit" => raised = "SystemExit" /\ exit_code = 1
       /\ ~pw_running /\ ~browser_open /\ ~ctx_open
       /\ pages = 0
       /\ ref_ids = EmptyDict
       /\ sent = << >>

\* the process halted on a missing channel id although the token and a
\* profile were given
C11_Witness ==
    /\ BOT_TOKEN # ""
    /\ CHANNEL_ID = ""
    /\ \E k \in 1..Len(profiles) : parse_username(profiles[k]) # << >>
    /\ pc = "exit"
    /\ exit_code = 1
    /\ ~pw_running

IsAbsoluteUrl(url) ==
    \/ StartsWith(url, <<"h","t","t","p","s",":","/","/">>)
    \/ StartsWith(url, <<"h","t","t","p",":","/","/">>)

\* C12: every notification carries an absolute URL: the scraped one when it
\* is absolute, and otherwise https://x.com/<profile>/status/<id> built from
\* the profile fetched and the id of the row.
C12_AbsoluteUrl ==
    \A k \in 1..Len(sent) :
        /\ IsAbsoluteUrl(sent[k].url)
        /\ \E m \in 1..Len(cur_df) :
              /\ cur_df[m].id = sent[k].id
              /\ IF IsAbsoluteUrl(cur_df[m].url)
                 THEN sent[k].url = cur_df[m].url
                 ELSE sent[k].url =
                        <<"h","t","t","p","s",":","/","/","x",".","c","o","m","/">>
                        \o parse_username(u)
                        \o <<"/","s","t","a","t","u","s","/">>
                        \o IdStr(sent[k].id)

\* a row scraped with the path /Al/status/1 on the page of bo was sent with
\* the URL https://x.com/bo/status/1
C12_Witness ==
    /\ u = <<"b", "o">>
    /\ \E m \in 1..Len(cur_df) :
          cur_df[m].url = <<"/","A","l","/","s","t","a","t","u","s","/","1">>
    /\ \E k \in 1..Len(sent) :
          sent[k].url = <<"h","t","t","p","s",":","/","/","x",".","c","o","m","/",
                          "b","o","/","s","t","a","t","u","s","/","1">>

UpperCase ==
    {"A","B","C","D","E","F","G","H","I","J","K","L","M",
     "N","O","P","Q","R","S","T","U","V","W","X","Y","Z"}

\* C13: every key of ref_ids is a lowercase username.
C13_LowercaseKeys ==
    \A key \in DOMAIN ref_ids : \A k \in 1..Len(key) : key[k] \notin UpperCase

\* C17: a delivery is reported as a success exactly when the endpoint
\* answered with a 2xx status.
C17_DeliveryOutcome ==
    \A k \in 1..Len(sent) :
        (sent[k].outcome = "success") <=> (sent[k].status \in 200..299)

\* C18: a step of the seeding or of the polling of profile u changes no
\* entry of ref_ids but that of u; from the end of the seeding on the keys
\* are exactly the monitored usernames and stay so, and u is a key whenever
\* ref_ids[u] is read.
C18_PerProfileFrame ==
    [][ /\ pc \in InitPcs =>
             \A w \in DOMAIN ref_ids :
                 w # u' => w \in DOMAIN ref_ids' /\ ref_ids'[w] = ref_ids[w]
        /\ pc \in PollPcs =>
             /\ DOMAIN ref_ids = { usernames[k] : k \in 1..Len(usernames) }
             /\ DOMAIN ref_ids' = DOMAIN ref_ids
             /\ \A w \in DOMAIN ref_ids : w # u => ref_ids'[w] = ref_ids[w]
             /\ pc \in {"diff", "dispatch"} => u \in DOMAIN ref_ids ]_vars

\* the reference of u was replaced in a cycle while another profile holds a
\* different, non-empty reference
C18_Witness ==
    /\ pc \in {"poll", "sleep"}
    /\ sent # << >>
    /\ \E w \in DOMAIN ref_ids :
          w # u /\ ref_ids[w] # {} /\ ref_ids[w] # ref_ids[u]

\* C19: at most one page is open at any time, and none is open at a fetch
\* boundary: whenever scrape_profile_df has returned (empty username,
\* protected, wait timeout or collection) the page it opened is closed.
C19_PageLifecycle ==
    /\ pages \in {0, 1}
    /\ pc \in {"init", "sleep", "poll", "diff", "dispatch"} => pages = 0

\* a polling fetch returned on the wait timeout with its page closed, after
\* an earlier fetch had collected tweets
C19_Witness ==
    /\ pc = "diff"
    /\ how = "timeout"
    /\ pages = 0
    /\ \E w \in DOMAIN ref_ids : ref_ids[w] # {}

\* what the three accepted forms are to normalise to, reference by reference
NormCases ==
    { [ref |-> NRef_Handle,    form |-> "handle", name |-> <<"b","o">>],
      [ref |-> NRef_Url,       form |-> "url",    name |-> <<"A","l">>],
      [ref |-> NRef_Bare,      form |-> "bare",   name |-> <<"b","o">>],
      [ref |-> NRef_UrlDeep,   form |-> "url",    name |-> <<"b","o">>],
      [ref |-> NRef_UrlSlash,  form |-> "url",    name |-> <<"A","l">>],
      [ref |-> NRef_Blank,     form |-> "bare",   name |-> << >>],
      [ref |-> NRef_UrlNoPath, form |-> "url",    name |-> << >>],
      [ref |-> NRef_At,        form |-> "handle", name |-> << >>] }

ExpectedName(ref) == (CHOOSE c \in NormCases : c.ref = ref).name

RECURSIVE ExpectedUsernames(_)
ExpectedUsernames(ps) ==
    IF ps = << >> THEN << >>
    ELSE IF ExpectedName(Head(ps)) # << >>
         THEN <<ExpectedName(Head(ps))>> \o ExpectedUsernames(Tail(ps))
         ELSE ExpectedUsernames(Tail(ps))

\* C14: the usernames the scheduler works on are the configured references
\* normalised form by form (handle without its @, first non-empty path
\* segment of a URL, bare username as it is), those normalising to the empty
\* string left out; with none left the process halts before the browser is
\* launched; no key of ref_ids is empty and a page is opened only for a
\* non-empty username.
C14_Normalization ==
    /\ (pc # "start" /\ raised # "SystemExit") =>
           usernames = ExpectedUsernames(profiles)
    /\ ExpectedUsernames(profiles) = << >> =>
           pc \in {"start", "exit"} /\ ~pw_running /\ ref_ids = EmptyDict
    /\ \A key \in DOMAIN ref_ids :
           /\ key # << >>
           /\ \E k \in 1..Len(profiles) : ExpectedName(profiles[k]) = key
    /\ pages > 0 => u # << >> /\ parse_username(u) # << >>

\* of the references https://x.com//bo/Al and @ only bo was seeded
C14_Witness ==
    /\ profiles = <<NRef_UrlDeep, NRef_At>>
    /\ usernames = << <<"b","o">> >>
    /\ pc = "sleep"
    /\ DOMAIN ref_ids = { <<"b","o">> }

\* ------------------------------------------------------ one fetch ------
\* the places of the dicts with this id in a list of dicts
PlacesOf(id, dicts) == { k \in 1..Len(dicts) : dicts[k].id = id }

\* the first dict with this id in a list of dicts that has one
FirstOf(id, dicts) ==
    dicts[CHOOSE k \in PlacesOf(id, dicts) : \A j \in PlacesOf(id, dicts) : k <= j]

FetchCollected == fetch_pc = "returned" /\ how = "collected"

\* C15 as stated: an id that the page showed more than once has exactly one
\* record in the fetch result (here for an id showing twice in the last
\* batch of the fetch).
C15_ExactlyOneRecord ==
    FetchCollected =>
        \A id \in 1..MaxId :
            Cardinality(PlacesOf(id, batch)) >= 2 =>
                Cardinality(PlacesOf(id, fetch_df)) = 1

\* C15: every add_batch keeps what was collected, appends one dict for each
\* id not collected before, namely the first of its batch with this id, and
\* appends none for an id collected before; the fetch result has one record
\* for each of the first max_tweets ids collected and no other record, each
\* record carries the link and the parsed time of the collected dict, and no
\* record has an empty id.
C15_FirstEncounterKept ==
    [][ /\ (LoopFirstBatch \/ LoopSecondBatch) =>
              /\ Len(items') >= Len(items)
              /\ SubSeq(items', 1, Len(items)) = items
              /\ IdsOf(items') = IdsOf(items) \cup IdsOf(batch')
              /\ \A id \in IdsOf(items') : Cardinality(PlacesOf(id, items')) = 1
              /\ \A k \in (Len(items) + 1)..Len(items') :
                     items'[k] = FirstOf(items'[k].id, batch')
        /\ FetchFinish =>
              /\ IdsOf(fetch_df') = IdsOf(Truncate(items, max_tweets))
              /\ Len(fetch_df') = Len(Truncate(items, max_tweets))
              /\ \A k \in 1..Len(fetch_df') :
                     /\ fetch_df'[k].id # StrToNat(<< >>)
                     /\ Cardinality(PlacesOf(fetch_df'[k].id, fetch_df')) = 1
                     /\ fetch_df'[k].url = FirstOf(fetch_df'[k].id, items).url
                     /\ fetch_df'[k].created_at =
                            to_datetime(FirstOf(fetch_df'[k].id, items).created_at)
      ]_vars

\* tweet 1 was collected with its first link, showed again in the last batch
\* with another link and time, and the result has it with the first link
C15_Witness ==
    /\ FetchCollected
    /\ \E k \in 1..Len(batch) :
           batch[k].id = 1 /\ batch[k].url = Article_Again.href
    /\ \E k \in 1..Len(fetch_df) :
           /\ fetch_df[k].id = 1
           /\ fetch_df[k].url = HrefOf(1)
           /\ fetch_df[k].created_at = to_datetime(RawTsOf(1))
    /\ Cardinality(PlacesOf(1, fetch_df)) = 1

\* C16: the collection loop ends whatever the page shows; idle_rounds stays
\* within 0..8, is set to zero by a round that left more items than it
\* found and is increased by one by any other round; no batch is collected
\* once max_tweets items are collected or idle_rounds is 8; the loop body
\* goes on to scroll only with fewer than max_tweets items; the returned
\* frame has at most max_tweets rows.
C16_BoundedCollection ==
    /\ [](idle_rounds \in 0..IdleLimit)
    /\ [](fetch_pc = "scrolled" => Len(items) < max_tweets /\ idle_rounds < IdleLimit)
    /\ [](fetch_pc = "returned" => Len(fetch_df) <= max_tweets)
    /\ [][ /\ LoopSecondBatch =>
                 idle_rounds' = IF Len(items') > before THEN 0 ELSE idle_rounds + 1
           /\ (fetch_pc = "loop" /\ (Len(items) >= max_tweets \/ idle_rounds >= IdleLimit)) =>
                 items' = items /\ batch' = batch /\ fetch_pc' \in {"close", "raised"}
         ]_vars
    /\ <>(fetch_pc \in {"returned", "raised"})

\* one item was collected, eight rounds in a row brought nothing more, and
\* the loop ended with fewer than max_tweets items
C16_Witness ==
    /\ FetchCollected
    /\ idle_rounds = IdleLimit
    /\ Len(items) = 1
    /\ Len(fetch_df) = 1

====
